---- MODULE Spec2Model ----
(***************************************************************************)
(* Session state machines of the candidate screening service:              *)
(* the conversational interview (chat / final report) and the MCQ test     *)
(* (start / answer / report), over the four Cosmos DB containers.          *)
(*                                                                         *)
(* Spec     : every request handler runs from its first store read to its  *)
(*            last store write without another request in between.         *)
(* SpecConc : several requests are in flight; a handler is split at the    *)
(*            point between its store reads and its store writes.          *)
(* SpecMcq  : the MCQ test of one session on a batch of five questions,    *)
(*            each handler as one step.                                    *)
(* SpecUpload: the two session-creating requests on every upload.          *)
(* SpecAgent: the pure functions of MCQAgentService on bounded inputs.     *)
(***************************************************************************)
EXTENDS Integers, Sequences, FiniteSets, Bags, TLC

VARIABLES
    sessions,      \* container "sessions":     session_id -> InterviewSession item
    reports,       \* container "reports":      session_id -> FinalReport item
    mcq_sessions,  \* container "mcq_sessions": session_id -> MCQSession item
    mcq_reports,   \* container "mcq_reports":  session_id -> MCQEvaluationReport item
    inflight,      \* requests that have read the store and not yet written
    req,           \* the request the last handler step served, with what the
                   \* collaborator answered in that step
    resp,          \* what the last handler step returned to its caller
    accepted       \* per session id, how many chat turns or answer submissions
                   \* have been answered 200 so far, counted up to MaxAccepted

vars == <<sessions, reports, mcq_sessions, mcq_reports, inflight, req, resp,
          accepted>>

----------------------------------------------------------------------------
(* Bounds of the model *)

MaxSessions == 1
MaxInflight == 2
MaxQuestionNumber == 5
MaxAccepted == 2

(* Literals of the source *)

TOTAL_QUESTIONS == 6
MIN_REPORT_QUESTIONS == 2
MCQ_TOTAL_REPORTED == 5

SessionIds == 1..MaxSessions

(* Request inputs and collaborator outputs, drawn from small sets *)

UserTexts == {"a1"}
Replies == {"q"}
LLMFail == "llm_error"
Evaluations == {"eval1", "eval2"}
MalformedEvaluations == {"not_json", "missing_field", "score_out_of_range",
                         "bad_recommendation"}

----------------------------------------------------------------------------
(* Responses *)

NoBody == [kind |-> "none"]
NoCall == [fn |-> "none"]
NoDetail == [msg |-> "none"]

Response(op, sid, status, detail, body, call) ==
    [op |-> op, sid |-> sid, status |-> status, detail |-> detail,
     body |-> body, call |-> call]

HTTPException(op, sid, status, detail) ==
    Response(op, sid, status, detail, NoBody, NoCall)

Accepted(op) == [op |-> op, sid |-> 0, status |-> 0, detail |-> NoDetail,
                 body |-> NoBody, call |-> NoCall]

InitResp == Accepted("none")

\* phase: "all" (the whole handler), "begin" or "finish" (its two steps in SpecConc)
Request(op, sid, phase, args) == [op |-> op, sid |-> sid, phase |-> phase, args |-> args]

NoArgs == [none |-> TRUE]

----------------------------------------------------------------------------
(* models.py *)

ChatMessage(sender, text) == [sender |-> sender, text |-> text]

InterviewSession(session_id, candidate_name, resume_text, job_description) ==
    [id |-> session_id, session_id |-> session_id,
     candidate_name |-> candidate_name, resume_text |-> resume_text,
     job_description |-> job_description,
     messages |-> <<>>, question_count |-> 0, is_complete |-> FALSE]

ChatResponse(ai_reply, session_id, question_number, is_complete) ==
    [kind |-> "ChatResponse", ai_reply |-> ai_reply, session_id |-> session_id,
     question_number |-> question_number, is_complete |-> is_complete]

FinalReportFields == {"session_id", "candidate_name", "evaluation", "transcript"}

----------------------------------------------------------------------------
(* services/database.py *)

UsedIds == DOMAIN sessions \cup DOMAIN mcq_sessions

\* a function extended with one more item
Put(container, key, item) ==
    [k \in DOMAIN container \cup {key} |-> IF k = key THEN item ELSE container[k]]

create_session(store, session_id) ==
    Put(store, session_id, InterviewSession(session_id, "name", "resume", "jd"))

\* (mutant) the counter is left as stored
update_session_keeps_count(store, session_id, messages, question_count, is_complete) ==
    [store EXCEPT ![session_id] =
        [@ EXCEPT !.messages = messages, !.is_complete = is_complete]]

\* (mutant) the new message pair is appended to the transcript as stored and
\* the stored counter is advanced
update_session_merges(store, session_id, messages, question_count, is_complete) ==
    [store EXCEPT ![session_id] =
        [@ EXCEPT !.messages = @ \o SubSeq(messages, Len(messages) - 1, Len(messages)),
                  !.question_count = @ + 1,
                  !.is_complete = is_complete]]

\* update_session re-reads the item and replaces the three fields it is given
update_session(store, session_id, messages, question_count, is_complete) ==
    [store EXCEPT ![session_id] =
        [@ EXCEPT !.messages = messages,
                  !.question_count = question_count,
                  !.is_complete = is_complete]]

\* save_report: the dumped report plus an "id" key, upserted under the session id
save_report(store, report) ==
    Put(store, report.session_id,
        [f \in FinalReportFields \cup {"id"} |->
            IF f = "id" THEN report.session_id ELSE report[f]])

\* get_report: FinalReport(**item) keeps the model's fields of the stored item
get_report(store, session_id) ==
    [kind |-> "FinalReport", session_id |-> store[session_id].session_id,
     candidate_name |-> store[session_id].candidate_name,
     evaluation |-> store[session_id].evaluation,
     transcript |-> store[session_id].transcript]

----------------------------------------------------------------------------
(* services/ai_agent.py *)

\* (mutant) the prompt names the number of questions asked so far
get_next_question_same_index(resume, job_description, conversation_history, question_number) ==
    [fn |-> "get_next_question", resume |-> resume,
     job_description |-> job_description,
     conversation_history |-> conversation_history,
     current_question_number |-> question_number,
     instruction |-> IF question_number = 0 THEN "greeting_and_first_question"
                     ELSE "ask_question"]

\* the request get_next_question sends to the completion service
get_next_question(resume, job_description, conversation_history, question_number) ==
    [fn |-> "get_next_question", resume |-> resume,
     job_description |-> job_description,
     conversation_history |-> conversation_history,
     current_question_number |-> question_number + 1,
     instruction |-> IF question_number = 0 THEN "greeting_and_first_question"
                     ELSE "ask_question"]

\* keyword arguments main.generate_final_report passes, and the parameters
\* AIAgentService.generate_final_report declares
FinalReportKwargs == {"candidate_name", "resume", "job_description",
                      "conversation_history", "questions_answered"}
FinalReportParams == {"candidate_name", "resume", "job_description",
                      "conversation_history"}

\* Python binds a call only when every keyword names a parameter
BindsCall(kwargs, params) == kwargs \subseteq params

\* (mutant) the call binds and whatever the completion service returned is
\* taken as an evaluation
ai_generate_final_report_lenient(candidate_name, resume, job_description, conversation_history, questions_answered, evaluation) ==
    [ok |-> TRUE, call |-> [fn |-> "generate_final_report"],
     report |-> [kind |-> "FinalReport", session_id |-> "",
                 candidate_name |-> candidate_name, evaluation |-> evaluation,
                 transcript |-> conversation_history]]

\* AIAgentService.generate_final_report: TypeError when the call does not bind,
\* an exception when the evaluation does not decode into a FinalReport,
\* the report (session_id still empty) otherwise
ai_generate_final_report(candidate_name, resume, job_description, conversation_history, questions_answered, evaluation) ==
    LET call == [fn |-> "generate_final_report", candidate_name |-> candidate_name,
                 resume |-> resume, job_description |-> job_description,
                 conversation_history |-> conversation_history]
    IN  IF ~BindsCall(FinalReportKwargs, FinalReportParams)
        THEN [ok |-> FALSE, error |-> "TypeError", call |-> NoCall]
        ELSE IF evaluation \in MalformedEvaluations
        THEN [ok |-> FALSE, error |-> evaluation, call |-> call]
        ELSE [ok |-> TRUE, call |-> call,
              report |-> [kind |-> "FinalReport", session_id |-> "",
                          candidate_name |-> candidate_name,
                          evaluation |-> evaluation,
                          transcript |-> conversation_history]]

----------------------------------------------------------------------------
(* main.py: chat *)

\* (mutant) the completion check is skipped
AlreadyComplete_skipped(session) == FALSE

AlreadyComplete(session) == session.is_complete

\* (mutant) strict comparison
InterviewComplete_strict(question_count) == question_count > TOTAL_QUESTIONS

InterviewComplete(question_count) == question_count >= TOTAL_QUESTIONS

\* (mutant) a turn is refused only once the counter has passed the total
chat_rejected_late(sid) ==
    sid \notin DOMAIN sessions \/ sessions[sid].question_count > TOTAL_QUESTIONS

\* lines 155-165: the checks made on the session as read
chat_rejected(sid) ==
    sid \notin DOMAIN sessions \/ AlreadyComplete(sessions[sid])

\* (mutant) an unknown session is reported like a completed one
chat_rejection_as_conflict(sid) ==
    HTTPException("chat", sid, 400, [msg |-> "Interview already completed"])

chat_rejection(sid) ==
    IF sid \notin DOMAIN sessions
    THEN HTTPException("chat", sid, 404, [msg |-> "Session not found"])
    ELSE HTTPException("chat", sid, 400, [msg |-> "Interview already completed"])

\* lines 167-208 on the session `session` read at line 156: the new stored
\* sessions and the response
\* (mutant) the candidate's message is stored before the collaborator is asked
chat_turn_persists_message(session, sid, user_message, ai_reply) ==
    LET messages1 == Append(session.messages, ChatMessage("Candidate", user_message))
        call == get_next_question(session.resume_text, session.job_description,
                                  messages1, session.question_count)
        messages2 == Append(messages1, ChatMessage("AI", ai_reply))
        question_count == session.question_count + 1
        is_complete == InterviewComplete(question_count)
    IN  IF ai_reply = LLMFail
        THEN [sessions |-> update_session(sessions, sid, messages1,
                                          session.question_count, session.is_complete),
              resp |-> Response("chat", sid, 500, [msg |-> "Chat error"], NoBody, call)]
        ELSE [sessions |-> update_session(sessions, sid, messages2, question_count,
                                          is_complete),
              resp |-> Response("chat", sid, 200, NoDetail,
                                ChatResponse(ai_reply, sid, question_count, is_complete),
                                call)]

chat_turn(session, sid, user_message, ai_reply) ==
    LET messages1 == Append(session.messages, ChatMessage("Candidate", user_message))
        call == get_next_question(session.resume_text, session.job_description,
                                  messages1, session.question_count)
        messages2 == Append(messages1, ChatMessage("AI", ai_reply))
        question_count == session.question_count + 1
        is_complete == InterviewComplete(question_count)
    IN  IF ai_reply = LLMFail
        THEN [sessions |-> sessions,
              resp |-> Response("chat", sid, 500, [msg |-> "Chat error"], NoBody, call)]
        ELSE [sessions |-> update_session(sessions, sid, messages2, question_count,
                                          is_complete),
              resp |-> Response("chat", sid, 200, NoDetail,
                                ChatResponse(ai_reply, sid, question_count, is_complete),
                                call)]

----------------------------------------------------------------------------
(* main.py: generate_final_report *)

\* (mutant) threshold one too low
NotEnoughData_low(session) == session.question_count < MIN_REPORT_QUESTIONS - 1

NotEnoughData(session) == session.question_count < MIN_REPORT_QUESTIONS

\* lines 229-245: the outcomes decided by the reads alone
final_report_early(sid) ==
    sid \notin DOMAIN sessions
    \/ NotEnoughData(sessions[sid])
    \/ sid \in DOMAIN reports

final_report_early_response(sid) ==
    IF sid \notin DOMAIN sessions
    THEN HTTPException("final_report", sid, 404, [msg |-> "Session not found"])
    ELSE IF NotEnoughData(sessions[sid])
    THEN HTTPException("final_report", sid, 400,
                       [msg |-> "Not enough data for evaluation",
                        answered |-> sessions[sid].question_count,
                        total |-> TOTAL_QUESTIONS,
                        at_least |-> MIN_REPORT_QUESTIONS])
    ELSE Response("final_report", sid, 200, NoDetail,
                  get_report(reports, sid), NoCall)

\* lines 247-276 on the session read at line 231
final_report_generate(session, sid, evaluation) ==
    LET made == ai_generate_final_report(session.candidate_name, session.resume_text,
                                         session.job_description, session.messages,
                                         session.question_count, evaluation)
    IN  IF ~made.ok
        THEN [sessions |-> sessions, reports |-> reports,
              resp |-> Response("final_report", sid, 500,
                                [msg |-> "Report generation failed", error |-> made.error],
                                NoBody, made.call)]
        ELSE LET report == [made.report EXCEPT !.session_id = sid]
             IN  [sessions |-> IF ~session.is_complete
                               THEN update_session(sessions, sid, session.messages,
                                                   session.question_count, TRUE)
                               ELSE sessions,
                  reports |-> save_report(reports, report),
                  resp |-> Response("final_report", sid, 200, NoDetail, report, made.call)]

----------------------------------------------------------------------------
(* MCQ test: models.py and the question batches the completion service returns *)

MCQ_COUNT == 5

Labels == {"a", "E"}
QuestionNumbers == 0..MaxQuestionNumber
Assessments == {"assess1", "assess2"}

MCQOptionSeq ==
    << [option |-> "A", text |-> "tA"], [option |-> "B", text |-> "tB"],
       [option |-> "C", text |-> "tC"], [option |-> "D", text |-> "tD"] >>

QuestionData(n, category, correct_option) ==
    [question_number |-> n, question_text |-> <<"question", n>>,
     options |-> MCQOptionSeq, category |-> category,
     correct_option |-> correct_option, explanation |-> <<"why", n>>]

Batch0 == << >>
Batch2 == << QuestionData(1, "Logical Reasoning", "A"),
             QuestionData(2, "Technical Aptitude", "b") >>
\* a batch whose only question the completion service numbered 2
BatchRenumbered == << QuestionData(2, "Problem Solving", "A") >>
\* a batch of `count` questions numbered 1..count, as the prompt asks for; the
\* correct labels of questions 2 and 4 are none of the option labels
Batch5 == << QuestionData(1, "Logical Reasoning", "A"),
             QuestionData(2, "Technical Aptitude", "e"),
             QuestionData(3, "Technical Aptitude", "a"),
             QuestionData(4, "Problem Solving", "E"),
             QuestionData(5, "Problem Solving", "A") >>
Batches == {Batch0, Batch2, BatchRenumbered}

\* (mutant) labels are left as written
upper_identity(label) == label

\* str.upper() on the labels of the model
upper(label) ==
    CASE label = "a" -> "A"
      [] label = "b" -> "B"
      [] label = "c" -> "C"
      [] label = "d" -> "D"
      [] label = "e" -> "E"
      [] OTHER -> label

MCQSession(session_id, questions) ==
    [id |-> session_id, session_id |-> session_id, candidate_name |-> "name",
     resume_text |-> "resume", job_description |-> "jd",
     questions |-> questions, answers |-> << >>,
     current_question_number |-> 0, is_complete |-> FALSE]

\* MCQQuestion(...) built from stored question data: the four client fields
MCQQuestion(question_data) ==
    [kind |-> "MCQQuestion", question_number |-> question_data.question_number,
     question_text |-> question_data.question_text,
     options |-> question_data.options, category |-> question_data.category]

CompletionSentinel ==
    [kind |-> "MCQQuestion", question_number |-> 0,
     question_text |-> "Test completed", options |-> << >>,
     category |-> "Completion"]

MCQResponse(question, session_id, is_complete) ==
    [kind |-> "MCQResponse", question |-> question, session_id |-> session_id,
     is_complete |-> is_complete, total_questions |-> MCQ_TOTAL_REPORTED]

MCQReportFields == {"session_id", "candidate_name", "total_questions",
                    "correct_answers", "score_percentage", "category_scores",
                    "answers", "assessment"}

----------------------------------------------------------------------------
(* services/database.py: MCQ containers *)

create_mcq_session(store, session_id, questions) ==
    Put(store, session_id, MCQSession(session_id, questions))

\* (mutant) the item is written back without its question list
update_mcq_session_drops_questions(store, session_id, answers, current_question_number, is_complete) ==
    [store EXCEPT ![session_id] =
        [@ EXCEPT !.answers = answers,
                  !.current_question_number = current_question_number,
                  !.is_complete = is_complete,
                  !.questions = << >>]]

\* (mutant) the new answer is appended to the answers as stored and the stored
\* pointer is advanced
update_mcq_session_merges(store, session_id, answers, current_question_number, is_complete) ==
    [store EXCEPT ![session_id] =
        [@ EXCEPT !.answers = Append(@, answers[Len(answers)]),
                  !.current_question_number = @ + 1,
                  !.is_complete = is_complete]]

\* update_mcq_session re-reads the item and replaces the three fields it is given
update_mcq_session(store, session_id, answers, current_question_number, is_complete) ==
    [store EXCEPT ![session_id] =
        [@ EXCEPT !.answers = answers,
                  !.current_question_number = current_question_number,
                  !.is_complete = is_complete]]

save_mcq_report(store, report) ==
    Put(store, report.session_id,
        [f \in MCQReportFields \cup {"id"} |->
            IF f = "id" THEN report.session_id ELSE report[f]])

get_mcq_report(store, session_id) ==
    [f \in MCQReportFields \cup {"kind"} |->
        IF f = "kind" THEN "MCQEvaluationReport" ELSE store[session_id][f]]

----------------------------------------------------------------------------
(* services/mcq_agent.py *)

\* the text of the first option whose label equals the selected one, else ""
selected_text(options, selected_option) ==
    LET hits == {i \in 1..Len(options) :
                    upper(options[i].option) = upper(selected_option)}
    IN  IF hits = {} THEN ""
        ELSE options[CHOOSE i \in hits : \A j \in hits : i <= j].text

\* (mutant) the labels are compared as written
evaluate_answer_case_sensitive(question_data, selected_option) ==
    [question_number |-> question_data.question_number,
     question_text |-> question_data.question_text,
     selected_option |-> upper(selected_option),
     selected_text |-> selected_text(question_data.options, selected_option),
     correct_option |-> upper(question_data.correct_option),
     is_correct |-> (selected_option = question_data.correct_option),
     explanation |-> question_data.explanation]

evaluate_answer(question_data, selected_option) ==
    [question_number |-> question_data.question_number,
     question_text |-> question_data.question_text,
     selected_option |-> upper(selected_option),
     selected_text |-> selected_text(question_data.options, selected_option),
     correct_option |-> upper(question_data.correct_option),
     is_correct |-> (upper(selected_option) = upper(question_data.correct_option)),
     explanation |-> question_data.explanation]

RECURSIVE count_correct(_)
count_correct(answers) ==
    IF answers = << >> THEN 0
    ELSE (IF answers[1].is_correct THEN 1 ELSE 0) + count_correct(Tail(answers))

\* (mutant) the division is made whatever the total
score_percentage_unguarded(correct_answers, total_questions) ==
    [num |-> correct_answers * 100, den |-> total_questions]

\* correct / total * 100 as the fraction num/den; 0 when there is no answer
score_percentage(correct_answers, total_questions) ==
    IF total_questions > 0
    THEN [num |-> correct_answers * 100, den |-> total_questions]
    ELSE [num |-> 0, den |-> 1]

\* (mutant) the bucket's total counts the correct answers only
category_scores_correct_only(answers) ==
    IF answers = << >> THEN << >>
    ELSE [c \in {"General"} |->
            [correct |-> count_correct(answers), total |-> count_correct(answers)]]

\* lines 135-146: every answer is counted under the one category "General"
category_scores(answers) ==
    IF answers = << >> THEN << >>
    ELSE [c \in {"General"} |->
            [correct |-> count_correct(answers), total |-> Len(answers)]]

\* generate_evaluation_report: an exception when the narrative request fails or
\* does not decode, the report (session_id still empty) otherwise
generate_evaluation_report(candidate_name, resume, job_description, answers, assessment) ==
    LET call == [fn |-> "generate_evaluation_report",
                 candidate_name |-> candidate_name,
                 correct_answers |-> count_correct(answers),
                 total_questions |-> Len(answers), answers |-> answers]
    IN  IF assessment = LLMFail
        THEN [ok |-> FALSE, call |-> call]
        ELSE [ok |-> TRUE, call |-> call,
              report |-> [kind |-> "MCQEvaluationReport", session_id |-> "",
                          candidate_name |-> candidate_name,
                          total_questions |-> Len(answers),
                          correct_answers |-> count_correct(answers),
                          score_percentage |->
                              score_percentage(count_correct(answers), Len(answers)),
                          category_scores |-> category_scores(answers),
                          answers |-> answers,
                          assessment |-> assessment]]

----------------------------------------------------------------------------
(* main.py: submit_mcq_answer *)

\* (mutant) only replays are rejected, skipping ahead is not
OutOfSequence_replay_only(question_number, session) ==
    question_number < session.current_question_number + 1

OutOfSequence(question_number, session) ==
    question_number # session.current_question_number + 1

\* (mutant) the last ordinal counts as out of range
InvalidQuestionIndex_strict(question_number, session) ==
    question_number >= Len(session.questions)

InvalidQuestionIndex(question_number, session) ==
    question_number - 1 >= Len(session.questions)

\* (mutant) the test counts as complete one answer early
MCQComplete_early(current_question_number, questions) ==
    current_question_number + 1 >= Len(questions)

MCQComplete(current_question_number, questions) ==
    current_question_number >= Len(questions)

\* lines 406-427: the checks made on the session as read
mcq_answer_rejected(sid, question_number) ==
    \/ sid \notin DOMAIN mcq_sessions
    \/ mcq_sessions[sid].is_complete
    \/ OutOfSequence(question_number, mcq_sessions[sid])
    \/ InvalidQuestionIndex(question_number, mcq_sessions[sid])

\* (mutant) every refusal after the lookup carries the same message
mcq_answer_rejection_terse(sid, question_number) ==
    IF sid \notin DOMAIN mcq_sessions
    THEN HTTPException("mcq_answer", sid, 404, [msg |-> "MCQ session not found"])
    ELSE HTTPException("mcq_answer", sid, 400, [msg |-> "Invalid question number"])

mcq_answer_rejection(sid, question_number) ==
    IF sid \notin DOMAIN mcq_sessions
    THEN HTTPException("mcq_answer", sid, 404, [msg |-> "MCQ session not found"])
    ELSE IF mcq_sessions[sid].is_complete
    THEN HTTPException("mcq_answer", sid, 400, [msg |-> "MCQ test already completed"])
    ELSE IF OutOfSequence(question_number, mcq_sessions[sid])
    THEN HTTPException("mcq_answer", sid, 400,
                       [msg |-> "Expected answer for question",
                        expected |-> mcq_sessions[sid].current_question_number + 1,
                        got |-> question_number])
    ELSE HTTPException("mcq_answer", sid, 400, [msg |-> "Invalid question number"])

\* lines 429-479 on the session read at line 407
mcq_answer_accept(session, sid, question_number, selected_option) ==
    LET question_data == session.questions[question_number]
        answer == evaluate_answer(question_data, selected_option)
        answers == Append(session.answers, answer)
        current_question_number == session.current_question_number + 1
        is_complete == MCQComplete(current_question_number, session.questions)
    IN  [mcq_sessions |-> update_mcq_session(mcq_sessions, sid, answers,
                                             current_question_number, is_complete),
         resp |-> Response("mcq_answer", sid, 200, NoDetail,
                           MCQResponse(IF is_complete THEN CompletionSentinel
                                       ELSE MCQQuestion(
                                              session.questions[current_question_number + 1]),
                                       sid, is_complete),
                           NoCall)]

----------------------------------------------------------------------------
(* main.py: generate_mcq_report *)

\* (mutant) the stored report is not looked up
mcq_report_early_no_lookup(sid) ==
    \/ sid \notin DOMAIN mcq_sessions
    \/ ~mcq_sessions[sid].is_complete

\* lines 492-507: the outcomes decided by the reads alone
mcq_report_early(sid) ==
    \/ sid \notin DOMAIN mcq_sessions
    \/ ~mcq_sessions[sid].is_complete
    \/ sid \in DOMAIN mcq_reports

mcq_report_early_response(sid) ==
    IF sid \notin DOMAIN mcq_sessions
    THEN HTTPException("mcq_report", sid, 404, [msg |-> "MCQ session not found"])
    ELSE IF ~mcq_sessions[sid].is_complete
    THEN HTTPException("mcq_report", sid, 400,
                       [msg |-> "MCQ test not complete",
                        answered |-> mcq_sessions[sid].current_question_number,
                        total |-> MCQ_TOTAL_REPORTED])
    ELSE Response("mcq_report", sid, 200, NoDetail,
                  get_mcq_report(mcq_reports, sid), NoCall)

\* lines 509-527 on the session read at line 494
mcq_report_generate(session, sid, assessment) ==
    LET made == generate_evaluation_report(session.candidate_name, session.resume_text,
                                           session.job_description, session.answers,
                                           assessment)
    IN  IF ~made.ok
        THEN [mcq_reports |-> mcq_reports,
              resp |-> Response("mcq_report", sid, 500,
                                [msg |-> "MCQ report generation failed"],
                                NoBody, made.call)]
        ELSE LET report == [made.report EXCEPT !.session_id = sid]
             IN  [mcq_reports |-> save_mcq_report(mcq_reports, report),
                  resp |-> Response("mcq_report", sid, 200, NoDetail, report, made.call)]

----------------------------------------------------------------------------
(* main.py: get_mcq_session_details *)

\* (mutant) only the correct label is removed
Redacted_keeps_explanation(question) ==
    [f \in DOMAIN question \ {"correct_option"} |-> question[f]]

\* question.pop('correct_option', None); question.pop('explanation', None)
Redacted(question) ==
    [f \in DOMAIN question \ {"correct_option", "explanation"} |-> question[f]]

\* lines 532-543: the dumped session, its questions redacted while incomplete
get_mcq_session_details(session) ==
    [kind |-> "MCQSession", session_id |-> session.session_id,
     questions |-> IF ~session.is_complete
                   THEN [i \in 1..Len(session.questions) |->
                            Redacted(session.questions[i])]
                   ELSE session.questions,
     answers |-> session.answers,
     current_question_number |-> session.current_question_number,
     is_complete |-> session.is_complete]

----------------------------------------------------------------------------
(* main.py: the upload checks of upload_resume and start_mcq_test.           *)
(* File names and texts are sequences of one-character strings.              *)

MIN_JD_LENGTH == 10

PdfName == <<"a", ".", "p", "d", "f">>
UpperPdfName == <<"a", ".", "P", "D", "F">>
TxtName == <<"a", ".", "t", "x", "t">>
ExeName == <<"a", ".", "e", "x", "e">>

ResumeSuffixes == {<<".", "p", "d", "f">>, <<".", "d", "o", "c", "x">>,
                   <<".", "d", "o", "c">>}
TxtSuffix == <<".", "t", "x", "t">>
JDSuffixes == ResumeSuffixes \cup {TxtSuffix}

\* ten characters once trimmed
LongText == <<" ", "j", "o", "b", " ", "t", "e", "x", "t", "1", "0">>
\* eleven characters, three once trimmed
PaddedText == <<" ", " ", "j", "o", "b", " ", " ", " ", " ", " ", " ">>
\* a text form field left out (None) or empty: both are false at line 99
NoText == << >>

\* an upload left out, or sent without a file name: both are false at line 77
NoFile == [filename |-> << >>, text |-> << >>, decodes |-> TRUE]

\* job-description files: `text` is what decoding (.txt) or text extraction
\* (.pdf, .docx, .doc; "" when extraction fails) yields, `decodes` whether the
\* bytes are UTF-8
JDFiles ==
    {NoFile,
     [filename |-> TxtName, text |-> LongText, decodes |-> TRUE],
     [filename |-> TxtName, text |-> NoText, decodes |-> FALSE],
     [filename |-> ExeName, text |-> LongText, decodes |-> TRUE],
     [filename |-> PdfName, text |-> PaddedText, decodes |-> TRUE]}

\* resume_parses: whether resume_parser_service.parse_resume returns a resume
\* (it raises when document analysis and the fallback extraction both fail)
Uploads ==
    [resume_filename : {PdfName, TxtName, UpperPdfName},
     resume_parses : BOOLEAN,
     job_description_file : JDFiles,
     job_description_text : {NoText, PaddedText, LongText}]

ValidUpload ==
    [resume_filename |-> PdfName, resume_parses |-> TRUE,
     job_description_file |-> NoFile, job_description_text |-> LongText]

\* the uploads of the specifications that are about the sessions once created
FewUploads ==
    {ValidUpload, [ValidUpload EXCEPT !.resume_filename = TxtName]}

\* str.endswith(suffixes)
endswith(name, suffixes) ==
    \E suffix \in suffixes :
        /\ Len(name) >= Len(suffix)
        /\ SubSeq(name, Len(name) - Len(suffix) + 1, Len(name)) = suffix

RECURSIVE lstrip(_)
lstrip(text) ==
    IF text # << >> /\ text[1] = " " THEN lstrip(Tail(text)) ELSE text

RECURSIVE rstrip(_)
rstrip(text) ==
    IF text # << >> /\ text[Len(text)] = " "
    THEN rstrip(SubSeq(text, 1, Len(text) - 1))
    ELSE text

\* str.strip()
strip(text) == lstrip(rstrip(text))

\* lines 74-108 (and their copy at 336-359): the job description of a request
job_description_of(job_description_file, job_description_text) ==
    IF job_description_file.filename # << >>
    THEN IF ~endswith(job_description_file.filename, JDSuffixes)
         THEN [error |-> "format", job_description |-> << >>]
         ELSE IF endswith(job_description_file.filename, {TxtSuffix})
                 /\ ~job_description_file.decodes
         THEN [error |-> "decode", job_description |-> << >>]
         ELSE [error |-> "none", job_description |-> job_description_file.text]
    ELSE IF job_description_text # << >>
    THEN [error |-> "none", job_description |-> job_description_text]
    ELSE [error |-> "missing", job_description |-> << >>]

\* (mutant) the length is taken before trimming
JDTooShort_untrimmed(job_description) ==
    job_description = << >> \/ Len(job_description) < MIN_JD_LENGTH

\* line 111
JDTooShort(job_description) ==
    job_description = << >> \/ Len(strip(job_description)) < MIN_JD_LENGTH

\* upload_resume, lines 59-115: the status and detail the checks end in, 200
\* when the request goes on to create_session
upload_resume(upload) ==
    LET jd == job_description_of(upload.job_description_file,
                                 upload.job_description_text)
    IN  IF ~endswith(upload.resume_filename, ResumeSuffixes)
        THEN [status |-> 400, detail |-> [msg |-> "Resume must be PDF or DOCX format"]]
        ELSE IF ~upload.resume_parses
        THEN [status |-> 500, detail |-> [msg |-> "Processing failed"]]
        ELSE IF jd.error = "format"
        THEN [status |-> 400,
              detail |-> [msg |-> "Job description file must be PDF, DOCX, or TXT format"]]
        ELSE IF jd.error = "decode"
        THEN [status |-> 500, detail |-> [msg |-> "Processing failed"]]
        ELSE IF jd.error = "missing"
        THEN [status |-> 400, detail |-> [msg |-> "Please provide job description"]]
        ELSE IF JDTooShort(jd.job_description)
        THEN [status |-> 400,
              detail |-> [msg |-> "Job description is too short or empty"]]
        ELSE [status |-> 200, detail |-> NoDetail]

\* start_mcq_test, lines 321-359: the status and detail the checks end in, 200
\* when the request goes on to generate_mcq_questions
start_mcq_test(upload) ==
    LET jd == job_description_of(upload.job_description_file,
                                 upload.job_description_text)
    IN  IF ~endswith(upload.resume_filename, ResumeSuffixes)
        THEN [status |-> 400, detail |-> [msg |-> "Resume must be PDF or DOCX format"]]
        ELSE IF ~upload.resume_parses
        THEN [status |-> 500, detail |-> [msg |-> "MCQ test initialization failed"]]
        ELSE IF jd.error = "format"
        THEN [status |-> 400,
              detail |-> [msg |-> "Job description must be PDF, DOCX, or TXT"]]
        ELSE IF jd.error = "decode"
        THEN [status |-> 500, detail |-> [msg |-> "MCQ test initialization failed"]]
        ELSE IF jd.error = "missing"
        THEN [status |-> 400, detail |-> [msg |-> "Please provide job description"]]
        ELSE [status |-> 200, detail |-> NoDetail]

----------------------------------------------------------------------------
(* The state after construction: four empty containers *)

Init ==
    /\ sessions = << >>
    /\ reports = << >>
    /\ mcq_sessions = << >>
    /\ mcq_reports = << >>
    /\ inflight = EmptyBag
    /\ accepted = [id \in SessionIds |-> 0]
    /\ req = Request("none", 0, "all", NoArgs)
    /\ resp = InitResp

----------------------------------------------------------------------------
(* Requests that create a session: one store write each *)

\* upload_resume: the checks, then create_session under a fresh uuid
UploadResume(id, upload) ==
    LET checked == upload_resume(upload)
    IN  /\ checked.status = 200 => id \notin UsedIds
        /\ sessions' = IF checked.status = 200
                        THEN create_session(sessions, id)
                        ELSE sessions
        /\ req' = Request("upload_resume", IF checked.status = 200 THEN id ELSE 0,
                          "all", upload)
        /\ resp' = IF checked.status = 200
                   THEN Response("upload_resume", id, 200, NoDetail,
                                 [kind |-> "upload", session_id |-> id], NoCall)
                   ELSE HTTPException("upload_resume", 0, checked.status,
                                      checked.detail)
        /\ UNCHANGED <<reports, mcq_sessions, mcq_reports, inflight, accepted>>

\* start_mcq_test with uploads that pass the checks: the batch is stored, then
\* questions[0] is read for the response
StartMcqTest(id, upload, questions) ==
        /\ start_mcq_test(upload).status = 200
        /\ id \notin UsedIds
        /\ mcq_sessions' = create_mcq_session(mcq_sessions, id, questions)
        /\ req' = Request("start_mcq_test", id, "all", upload)
        /\ resp' = IF questions = << >>
                   THEN Response("start_mcq_test", id, 500,
                                 [msg |-> "MCQ test initialization failed"], NoBody,
                                 [fn |-> "generate_mcq_questions", count |-> MCQ_COUNT])
                   ELSE Response("start_mcq_test", id, 200, NoDetail,
                                 [kind |-> "start", session_id |-> id,
                                  total_questions |-> MCQ_TOTAL_REPORTED,
                                  first_question |-> MCQQuestion(questions[1])],
                                 [fn |-> "generate_mcq_questions", count |-> MCQ_COUNT])
        /\ UNCHANGED <<sessions, reports, mcq_reports, inflight, accepted>>

\* start_mcq_test when question generation raises: nothing is stored
StartMcqTestFails(upload) ==
    /\ start_mcq_test(upload).status = 200
    /\ req' = Request("start_mcq_test", 0, "all", upload)
    /\ resp' = Response("start_mcq_test", 0, 500,
                        [msg |-> "MCQ test initialization failed"], NoBody,
                        [fn |-> "generate_mcq_questions", count |-> MCQ_COUNT])
    /\ UNCHANGED <<sessions, reports, mcq_sessions, mcq_reports, inflight, accepted>>

\* start_mcq_test when an upload fails a check: nothing is generated or stored
StartMcqTestInvalid(upload) ==
    /\ start_mcq_test(upload).status # 200
    /\ req' = Request("start_mcq_test", 0, "all", upload)
    /\ resp' = HTTPException("start_mcq_test", 0, start_mcq_test(upload).status,
                             start_mcq_test(upload).detail)
    /\ UNCHANGED <<sessions, reports, mcq_sessions, mcq_reports, inflight, accepted>>

\* get_mcq_session_details: one store read, no write
GetMcqSession(sid) ==
    /\ req' = Request("get_mcq_session", sid, "all", NoArgs)
    /\ resp' = IF sid \notin DOMAIN mcq_sessions
               THEN HTTPException("get_mcq_session", sid, 404,
                                  [msg |-> "MCQ session not found"])
               ELSE Response("get_mcq_session", sid, 200, NoDetail,
                             get_mcq_session_details(mcq_sessions[sid]), NoCall)
    /\ UNCHANGED <<sessions, reports, mcq_sessions, mcq_reports, inflight, accepted>>

\* get_session (lines 286-292): one store read, no write
GetSession(sid) ==
    /\ req' = Request("get_session", sid, "all", NoArgs)
    /\ resp' = IF sid \notin DOMAIN sessions
               THEN HTTPException("get_session", sid, 404, [msg |-> "Session not found"])
               ELSE Response("get_session", sid, 200, NoDetail,
                             [kind |-> "InterviewSession", session |-> sessions[sid]],
                             NoCall)
    /\ UNCHANGED <<sessions, reports, mcq_sessions, mcq_reports, inflight, accepted>>

\* get_report (lines 278-284): one store read, no write
GetReport(sid) ==
    /\ req' = Request("get_report", sid, "all", NoArgs)
    /\ resp' = IF sid \notin DOMAIN reports
               THEN HTTPException("get_report", sid, 404, [msg |-> "Report not found"])
               ELSE Response("get_report", sid, 200, NoDetail,
                             get_report(reports, sid), NoCall)
    /\ UNCHANGED <<sessions, reports, mcq_sessions, mcq_reports, inflight, accepted>>

\* the callers of session sid have been told of one more accepted turn or
\* answer when the step returns 200
Tally(sid) ==
    IF resp'.status = 200 /\ accepted[sid] < MaxAccepted
    THEN [accepted EXCEPT ![sid] = @ + 1]
    ELSE accepted

----------------------------------------------------------------------------
(* Spec: each handler as one step *)

Chat(sid, user_message, ai_reply) ==
    /\ req' = Request("chat", sid, "all",
                      [user_message |-> user_message, ai_reply |-> ai_reply])
    /\ IF chat_rejected(sid)
       THEN /\ resp' = chat_rejection(sid)
            /\ UNCHANGED sessions
       ELSE LET r == chat_turn(sessions[sid], sid, user_message, ai_reply)
            IN  /\ sessions' = r.sessions
                /\ resp' = r.resp
    /\ UNCHANGED <<reports, mcq_sessions, mcq_reports, inflight>>
    /\ accepted' = Tally(sid)

FinalReport(sid, evaluation) ==
    /\ req' = Request("final_report", sid, "all", [evaluation |-> evaluation])
    /\ IF final_report_early(sid)
       THEN /\ resp' = final_report_early_response(sid)
            /\ UNCHANGED <<sessions, reports>>
       ELSE LET r == final_report_generate(sessions[sid], sid, evaluation)
            IN  /\ sessions' = r.sessions
                /\ reports' = r.reports
                /\ resp' = r.resp
    /\ UNCHANGED <<mcq_sessions, mcq_reports, inflight, accepted>>

SubmitMcqAnswer(sid, question_number, selected_option) ==
    /\ req' = Request("mcq_answer", sid, "all",
                      [question_number |-> question_number,
                       selected_option |-> selected_option])
    /\ IF mcq_answer_rejected(sid, question_number)
       THEN /\ resp' = mcq_answer_rejection(sid, question_number)
            /\ UNCHANGED mcq_sessions
       ELSE LET r == mcq_answer_accept(mcq_sessions[sid], sid, question_number,
                                       selected_option)
            IN  /\ mcq_sessions' = r.mcq_sessions
                /\ resp' = r.resp
    /\ UNCHANGED <<sessions, reports, mcq_reports, inflight>>
    /\ accepted' = Tally(sid)

McqReport(sid, assessment) ==
    /\ req' = Request("mcq_report", sid, "all", NoArgs)
    /\ IF mcq_report_early(sid)
       THEN /\ resp' = mcq_report_early_response(sid)
            /\ UNCHANGED mcq_reports
       ELSE LET r == mcq_report_generate(mcq_sessions[sid], sid, assessment)
            IN  /\ mcq_reports' = r.mcq_reports
                /\ resp' = r.resp
    /\ UNCHANGED <<sessions, reports, mcq_sessions, inflight, accepted>>

Next ==
    \/ \E id \in SessionIds, upload \in FewUploads : UploadResume(id, upload)
    \/ \E id \in SessionIds, upload \in FewUploads, questions \in Batches :
          StartMcqTest(id, upload, questions)
    \/ \E upload \in FewUploads : StartMcqTestFails(upload)
    \/ \E upload \in FewUploads : StartMcqTestInvalid(upload)
    \/ \E sid \in SessionIds : GetMcqSession(sid)
    \/ \E sid \in SessionIds : GetSession(sid)
    \/ \E sid \in SessionIds : GetReport(sid)
    \/ \E sid \in SessionIds, m \in UserTexts, r \in Replies \cup {LLMFail} :
          Chat(sid, m, r)
    \/ \E sid \in SessionIds, e \in Evaluations \cup MalformedEvaluations :
          FinalReport(sid, e)
    \/ \E sid \in SessionIds, n \in QuestionNumbers, l \in Labels :
          SubmitMcqAnswer(sid, n, l)
    \/ \E sid \in SessionIds, a \in Assessments \cup {LLMFail} :
          McqReport(sid, a)

Spec == Init /\ [][Next]_vars

----------------------------------------------------------------------------
(* SpecConc: requests of several workers against the same containers.        *)
(* A handler that calls a collaborator or writes the store after its reads   *)
(* is two steps: Begin (the store reads and the checks on what was read) and *)
(* Finish (the collaborator call and the store writes, on the session as it  *)
(* was read).  Nothing in the handlers or in database.py orders the requests *)
(* of different workers: update_session and update_mcq_session upsert        *)
(* unconditionally.  generate_final_report stays one step: after its reads   *)
(* it raises before any collaborator or store call (the call at lines        *)
(* 248-254 does not bind).                                                   *)
(* The containers are keyed by session id and no handler touches an item of  *)
(* another id, so the requests here all address one session id.              *)

ConcSessionIds == {1}

HasFreeWorker == BagCardinality(inflight) < MaxInflight

Pending(op, sid) == [Accepted(op) EXCEPT !.sid = sid]

Submit(request) == inflight' = inflight (+) SetToBag({request})
Release(request) == inflight' = inflight (-) SetToBag({request})

ChatBegin(sid, user_message) ==
    /\ HasFreeWorker
    /\ req' = Request("chat", sid, "begin", [user_message |-> user_message])
    /\ IF chat_rejected(sid)
       THEN /\ resp' = chat_rejection(sid)
            /\ UNCHANGED inflight
       ELSE /\ Submit([op |-> "chat", sid |-> sid, session |-> sessions[sid],
                       user_message |-> user_message])
            /\ resp' = Pending("chat", sid)
    /\ UNCHANGED <<sessions, reports, mcq_sessions, mcq_reports, accepted>>

ChatFinish(request, ai_reply) ==
    /\ request.op = "chat"
    /\ req' = Request("chat", request.sid, "finish",
                      [user_message |-> request.user_message, ai_reply |-> ai_reply])
    /\ LET r == chat_turn(request.session, request.sid, request.user_message, ai_reply)
       IN  /\ sessions' = r.sessions
           /\ resp' = r.resp
    /\ Release(request)
    /\ UNCHANGED <<reports, mcq_sessions, mcq_reports>>
    /\ accepted' = Tally(request.sid)

McqAnswerBegin(sid, question_number, selected_option) ==
    /\ HasFreeWorker
    /\ req' = Request("mcq_answer", sid, "begin",
                      [question_number |-> question_number,
                       selected_option |-> selected_option])
    /\ IF mcq_answer_rejected(sid, question_number)
       THEN /\ resp' = mcq_answer_rejection(sid, question_number)
            /\ UNCHANGED inflight
       ELSE /\ Submit([op |-> "mcq_answer", sid |-> sid,
                       session |-> mcq_sessions[sid],
                       question_number |-> question_number,
                       selected_option |-> selected_option])
            /\ resp' = Pending("mcq_answer", sid)
    /\ UNCHANGED <<sessions, reports, mcq_sessions, mcq_reports, accepted>>

McqAnswerFinish(request) ==
    /\ request.op = "mcq_answer"
    /\ req' = Request("mcq_answer", request.sid, "finish",
                      [question_number |-> request.question_number,
                       selected_option |-> request.selected_option])
    /\ LET r == mcq_answer_accept(request.session, request.sid,
                                  request.question_number, request.selected_option)
       IN  /\ mcq_sessions' = r.mcq_sessions
           /\ resp' = r.resp
    /\ Release(request)
    /\ UNCHANGED <<sessions, reports, mcq_reports>>
    /\ accepted' = Tally(request.sid)

McqReportBegin(sid) ==
    /\ HasFreeWorker
    /\ req' = Request("mcq_report", sid, "begin", NoArgs)
    /\ IF mcq_report_early(sid)
       THEN /\ resp' = mcq_report_early_response(sid)
            /\ UNCHANGED inflight
       ELSE /\ Submit([op |-> "mcq_report", sid |-> sid,
                       session |-> mcq_sessions[sid]])
            /\ resp' = Pending("mcq_report", sid)
    /\ UNCHANGED <<sessions, reports, mcq_sessions, mcq_reports, accepted>>

McqReportFinish(request, assessment) ==
    /\ request.op = "mcq_report"
    /\ req' = Request("mcq_report", request.sid, "finish", NoArgs)
    /\ LET r == mcq_report_generate(request.session, request.sid, assessment)
       IN  /\ mcq_reports' = r.mcq_reports
           /\ resp' = r.resp
    /\ Release(request)
    /\ UNCHANGED <<sessions, reports, mcq_sessions, accepted>>

NextConc ==
    \/ \E id \in ConcSessionIds, upload \in FewUploads : UploadResume(id, upload)
    \/ \E id \in ConcSessionIds, upload \in FewUploads, questions \in Batches :
          StartMcqTest(id, upload, questions)
    \/ \E upload \in FewUploads : StartMcqTestFails(upload)
    \/ \E upload \in FewUploads : StartMcqTestInvalid(upload)
    \/ \E sid \in ConcSessionIds : GetMcqSession(sid)
    \/ \E sid \in ConcSessionIds : GetSession(sid)
    \/ \E sid \in ConcSessionIds : GetReport(sid)
    \/ \E sid \in ConcSessionIds, m \in UserTexts : ChatBegin(sid, m)
    \/ \E request \in BagToSet(inflight), r \in Replies \cup {LLMFail} :
          ChatFinish(request, r)
    \/ \E sid \in ConcSessionIds, e \in Evaluations \cup MalformedEvaluations :
          FinalReport(sid, e)
    \/ \E sid \in ConcSessionIds, n \in QuestionNumbers, l \in Labels :
          McqAnswerBegin(sid, n, l)
    \/ \E request \in BagToSet(inflight) : McqAnswerFinish(request)
    \/ \E sid \in ConcSessionIds : McqReportBegin(sid)
    \/ \E request \in BagToSet(inflight), a \in Assessments \cup {LLMFail} :
          McqReportFinish(request, a)

SpecConc == Init /\ [][NextConc]_vars

----------------------------------------------------------------------------
(* SpecMcq: the MCQ test of one session on the batch the prompt asks for,    *)
(* each handler as one step                                                  *)

NextMcq ==
    \/ \E id \in ConcSessionIds : StartMcqTest(id, ValidUpload, Batch5)
    \/ \E sid \in ConcSessionIds, n \in QuestionNumbers, l \in Labels :
          SubmitMcqAnswer(sid, n, l)
    \/ \E sid \in ConcSessionIds, a \in Assessments \cup {LLMFail} :
          McqReport(sid, a)
    \/ \E sid \in ConcSessionIds : GetMcqSession(sid)

SpecMcq == Init /\ [][NextMcq]_vars

----------------------------------------------------------------------------
(* SpecUpload: the two requests that create a session, on every upload of    *)
(* the model                                                                 *)

NextUpload ==
    \/ \E id \in SessionIds, upload \in Uploads : UploadResume(id, upload)
    \/ \E id \in SessionIds, upload \in Uploads, questions \in Batches :
          StartMcqTest(id, upload, questions)
    \/ \E upload \in Uploads : StartMcqTestFails(upload)
    \/ \E upload \in Uploads : StartMcqTestInvalid(upload)

SpecUpload == Init /\ [][NextUpload]_vars

----------------------------------------------------------------------------
(* SpecAgent: the two functions of MCQAgentService that compute without the  *)
(* store, each applied once to an input drawn from a bounded set             *)

MaxAnswers == 2

AllLabels == {"A", "a", "B", "b", "E", "e"}

StoredQuestions ==
    {batch[i] : batch \in {Batch2}, i \in 1..2}
    \cup {Batch5[i] : i \in 1..5} \cup {BatchRenumbered[1]}

AnswerRecords ==
    {evaluate_answer(question_data, l) : question_data \in StoredQuestions, l \in Labels}

AnswerLists == UNION {[1..n -> AnswerRecords] : n \in 0..MaxAnswers}

\* the inputs: a question and a label, or an answer list and what the
\* completion service returns for the narrative
AgentInputs ==
    {Request("evaluate_answer", 0, "begin",
             [question_data |-> question_data, selected_option |-> l]) :
        question_data \in StoredQuestions, l \in AllLabels}
    \cup {Request("generate_evaluation_report", 0, "begin",
                  [answers |-> answers, assessment |-> a]) :
             answers \in AnswerLists, a \in Assessments \cup {LLMFail}}

InitAgent ==
    /\ sessions = << >>
    /\ reports = << >>
    /\ mcq_sessions = << >>
    /\ mcq_reports = << >>
    /\ inflight = EmptyBag
    /\ accepted = [id \in SessionIds |-> 0]
    /\ req \in AgentInputs
    /\ resp = InitResp

EvaluateAnswer ==
    /\ req.op = "evaluate_answer" /\ req.phase = "begin"
    /\ req' = [req EXCEPT !.phase = "all"]
    /\ resp' = Response("evaluate_answer", 0, 200, NoDetail,
                        [kind |-> "MCQAnswer",
                         answer |-> evaluate_answer(req.args.question_data,
                                                    req.args.selected_option)],
                        NoCall)
    /\ UNCHANGED <<sessions, reports, mcq_sessions, mcq_reports, inflight, accepted>>

GenerateEvaluationReport ==
    /\ req.op = "generate_evaluation_report" /\ req.phase = "begin"
    /\ req' = [req EXCEPT !.phase = "all"]
    /\ LET made == generate_evaluation_report("name", "resume", "jd",
                                              req.args.answers, req.args.assessment)
       IN  resp' = IF made.ok
                   THEN Response("generate_evaluation_report", 0, 200, NoDetail,
                                 made.report, made.call)
                   ELSE Response("generate_evaluation_report", 0, 500,
                                 [msg |-> "Failed to generate evaluation report"],
                                 NoBody, made.call)
    /\ UNCHANGED <<sessions, reports, mcq_sessions, mcq_reports, inflight, accepted>>

NextAgent ==
    \/ EvaluateAnswer
    \/ GenerateEvaluationReport

SpecAgent == InitAgent /\ [][NextAgent]_vars

----------------------------------------------------------------------------
(* Properties *)

\* a step in which a request is received (not the second step of a handler)
Received(op, sid) == req'.op = op /\ req'.sid = sid /\ req'.phase # "finish"

\* the last step served a final-report request for an existing session with at
\* least `least` answered questions, and the collaborator's evaluation was
\* well-formed
EligibleReportRequest(least) ==
    /\ req.op = "final_report"
    /\ req.sid \in DOMAIN sessions
    /\ sessions[req.sid].question_count >= least
    /\ req.args.evaluation \in Evaluations

CandidateTurns(messages) ==
    Cardinality({i \in 1..Len(messages) : messages[i].sender = "Candidate"})

\* C1: in every step, for every interview and MCQ session, a stored is_complete
\* that is true stays true, and the stored question_count /
\* current_question_number does not decrease.
C1_FlagAndCounterMonotone ==
    [][ /\ \A s \in DOMAIN sessions :
              /\ sessions[s].is_complete => sessions'[s].is_complete
              /\ sessions'[s].question_count >= sessions[s].question_count
        /\ \A s \in DOMAIN mcq_sessions :
              /\ mcq_sessions[s].is_complete => mcq_sessions'[s].is_complete
              /\ mcq_sessions'[s].current_question_number
                    >= mcq_sessions[s].current_question_number ]_vars

\* C2: a chat turn received for a session stored as complete is answered 400
\* "already completed", sends nothing to the completion service and changes
\* neither the stored sessions nor the requests in flight.
C2_CompletedSessionRejectsChat ==
    [][ \A s \in DOMAIN sessions :
          (sessions[s].is_complete /\ Received("chat", s))
          => /\ resp'.status = 400
             /\ resp'.detail.msg = "Interview already completed"
             /\ resp'.call = NoCall
             /\ sessions' = sessions
             /\ inflight' = inflight ]_vars

C2_Witness ==
    /\ req.op = "chat" /\ req.phase # "finish"
    /\ req.sid \in DOMAIN sessions
    /\ sessions[req.sid].is_complete
    /\ sessions[req.sid].question_count = TOTAL_QUESTIONS
    /\ resp.status = 400

\* C3 (as stated): an MCQ answer whose question_number differs from the stored
\* current_question_number + 1 is always rejected as out of sequence, and the
\* stored MCQ sessions are unchanged.
C3_AlwaysOutOfSequence ==
    [][ \A s \in DOMAIN mcq_sessions :
          (/\ Received("mcq_answer", s)
           /\ req'.args.question_number # mcq_sessions[s].current_question_number + 1)
          => /\ resp'.status = 400
             /\ resp'.detail.msg = "Expected answer for question"
             /\ mcq_sessions' = mcq_sessions ]_vars

\* C3 (amended): such a submission is always rejected with status 400 and the
\* stored MCQ sessions are unchanged; the rejection is the out-of-sequence one,
\* naming the expected and the submitted ordinal, when the session is not yet
\* complete, and the already-completed one when it is.
C3_OutOfSequenceRejected ==
    [][ \A s \in DOMAIN mcq_sessions :
          (/\ Received("mcq_answer", s)
           /\ req'.args.question_number # mcq_sessions[s].current_question_number + 1)
          => /\ resp'.status = 400
             /\ IF mcq_sessions[s].is_complete
                THEN resp'.detail.msg = "MCQ test already completed"
                ELSE /\ resp'.detail.msg = "Expected answer for question"
                     /\ resp'.detail.expected
                           = mcq_sessions[s].current_question_number + 1
                     /\ resp'.detail.got = req'.args.question_number
             /\ mcq_sessions' = mcq_sessions
             /\ inflight' = inflight ]_vars

C3_Witness ==
    /\ req.op = "mcq_answer" /\ req.phase # "finish"
    /\ req.sid \in DOMAIN mcq_sessions
    /\ mcq_sessions[req.sid].current_question_number = 1
    /\ req.args.question_number = 3
    /\ resp.status = 400
    /\ resp.detail.msg = "Expected answer for question"

\* C4: the second of two consecutive report requests for a session, the first
\* made with enough answered questions and a well-formed evaluation, returns
\* the stored report without a completion request and without a store write.
C4_SecondRequestReturnsStoredReport ==
    [][ (EligibleReportRequest(3) /\ Received("final_report", req.sid))
        => /\ resp'.status = 200
           /\ req.sid \in DOMAIN reports
           /\ resp'.body = get_report(reports, req.sid)
           /\ resp'.call = NoCall
           /\ reports' = reports
           /\ sessions' = sessions ]_vars

\* C5: an MCQ report request received for a complete session with a stored
\* report returns that stored report, sends nothing to the completion service
\* and writes nothing; and the report a generating step returns is the one it
\* stored, so the next request returns the same content.
C5_McqReportIdempotent ==
    [][ /\ \A s \in DOMAIN mcq_sessions :
              (/\ mcq_sessions[s].is_complete
               /\ s \in DOMAIN mcq_reports
               /\ Received("mcq_report", s))
              => /\ resp'.status = 200
                 /\ resp'.body = get_mcq_report(mcq_reports, s)
                 /\ resp'.call = NoCall
                 /\ mcq_reports' = mcq_reports
                 /\ mcq_sessions' = mcq_sessions
                 /\ inflight' = inflight
        /\ (req'.op = "mcq_report" /\ resp'.status = 200)
              => /\ req'.sid \in DOMAIN mcq_reports'
                 /\ resp'.body = get_mcq_report(mcq_reports', req'.sid) ]_vars

C5_Witness ==
    /\ req.op = "mcq_report" /\ req.phase # "finish"
    /\ resp.status = 200
    /\ resp.call = NoCall
    /\ resp.body.kind = "MCQEvaluationReport"
    /\ resp.body = get_mcq_report(mcq_reports, req.sid)

C7_KthAcceptedTurn ==
    (req.op = "chat" /\ resp.status = 200)
    => LET k == CandidateTurns(sessions[req.sid].messages)
       IN  /\ k \in 1..6
           /\ resp.body.question_number = k
           /\ resp.body.is_complete = (k = 6)
           /\ sessions[req.sid].is_complete = (k = 6)
           /\ sessions[req.sid].question_count = k

C7_Witness ==
    /\ req.op = "chat" /\ resp.status = 200
    /\ resp.body.question_number = 6
    /\ resp.body.is_complete
    /\ sessions[req.sid].is_complete

\* C8 (as stated): a report request for a session with fewer than 3 answered
\* questions is rejected with the insufficient-data condition naming its count.
C8_RejectedBelowThree ==
    (/\ req.op = "final_report"
     /\ req.sid \in DOMAIN sessions
     /\ sessions[req.sid].question_count < 3)
    => /\ resp.status = 400
       /\ resp.detail.msg = "Not enough data for evaluation"
       /\ resp.detail.answered = sessions[req.sid].question_count

\* C8 (amended): a report request for a session with fewer than 2 answered
\* questions is rejected with the insufficient-data condition naming its count
\* and the required minimum 2, sends nothing to the completion service, stores
\* no report and leaves the stored sessions unchanged.
C8_RejectedBelowTwo ==
    [][ \A s \in DOMAIN sessions :
          (sessions[s].question_count < 2 /\ Received("final_report", s))
          => /\ resp'.status = 400
             /\ resp'.detail.msg = "Not enough data for evaluation"
             /\ resp'.detail.answered = sessions[s].question_count
             /\ resp'.detail.at_least = 2
             /\ resp'.call = NoCall
             /\ reports' = reports
             /\ s \notin DOMAIN reports'
             /\ sessions' = sessions ]_vars

C8_Witness ==
    /\ req.op = "final_report"
    /\ req.sid \in DOMAIN sessions
    /\ sessions[req.sid].question_count = 1
    /\ resp.status = 400
    /\ resp.detail.answered = 1

\* C9: a report request for an existing session with at least 3 answered
\* questions and no stored report, answered by the collaborator with a
\* well-formed evaluation, succeeds: the collaborator was called, and the report
\* returned is stored under the session id.
C9_EligibleReportSucceeds ==
    EligibleReportRequest(3)
    => /\ resp.status = 200
       /\ resp.call.fn = "generate_final_report"
       /\ req.sid \in DOMAIN reports
       /\ resp.body = get_report(reports, req.sid)

\* C10: after a report request that met the minimum and got a well-formed
\* evaluation, the session is stored as complete, whatever its counter.
C10_ReportMarksSessionComplete ==
    EligibleReportRequest(3) => sessions[req.sid].is_complete

C12_ReportOnlyForCompleteSession ==
    \A s \in DOMAIN reports : s \in DOMAIN sessions /\ sessions[s].is_complete

\* C13: whenever start_mcq_test returns an error, the stored MCQ sessions are
\* what they were before the request: no session record has been created.
C13_FailedStartStoresNothing ==
    [][ (req'.op = "start_mcq_test" /\ resp'.status # 200)
        => mcq_sessions' = mcq_sessions ]_vars

\* the stored pointer of every MCQ session is the number of its stored answers
PointerCountsAnswers ==
    \A s \in DOMAIN mcq_sessions :
        mcq_sessions[s].current_question_number = Len(mcq_sessions[s].answers)

\* C14: in every MCQ session the stored pointer equals the number of stored
\* answers, and the i-th stored answer carries question_number i.
C14_PointerAndAnswerNumbers ==
    /\ PointerCountsAnswers
    /\ \A s \in DOMAIN mcq_sessions :
          \A i \in 1..Len(mcq_sessions[s].answers) :
              mcq_sessions[s].answers[i].question_number = i

\* the flag of a session with at least one question tells whether its pointer
\* has reached the number of its questions
CompleteIffPointerAtEnd(session) ==
    session.is_complete <=> session.current_question_number = Len(session.questions)

NonEmptyCompleteIffPointerAtEnd ==
    \A s \in DOMAIN mcq_sessions :
        mcq_sessions[s].questions # << >> => CompleteIffPointerAtEnd(mcq_sessions[s])

\* C15: every stored MCQ session, one with an empty question sequence
\* included, is complete exactly when its pointer equals the number of its
\* questions.
C15_CompleteIffPointerAtEnd ==
    \A s \in DOMAIN mcq_sessions : CompleteIffPointerAtEnd(mcq_sessions[s])

\* C16: no step removes an MCQ session or changes its stored questions: the
\* sequence written at creation is the one every later state holds, through
\* answer submissions, report generation and session fetches alike.
C16_QuestionsFixedAtCreation ==
    [][ \A s \in DOMAIN mcq_sessions :
          /\ s \in DOMAIN mcq_sessions'
          /\ mcq_sessions'[s].questions = mcq_sessions[s].questions ]_vars

C16_Witness ==
    /\ req.op = "get_mcq_session" /\ resp.status = 200
    /\ req.sid \in DOMAIN mcq_reports
    /\ Len(mcq_sessions[req.sid].answers) = 2
    /\ mcq_sessions[req.sid].questions = Batch2
    /\ resp.body.questions = Batch2

\* C17: every stored MCQ session holds exactly 5 questions, each with a
\* correct label, and a successful start reports as total_questions the number
\* of questions it stored.
C17_ExactlyFiveQuestions ==
    /\ \A s \in DOMAIN mcq_sessions :
          /\ Len(mcq_sessions[s].questions) = MCQ_COUNT
          /\ \A i \in 1..Len(mcq_sessions[s].questions) :
                "correct_option" \in DOMAIN mcq_sessions[s].questions[i]
    /\ (req.op = "start_mcq_test" /\ resp.status = 200)
          => resp.body.total_questions = Len(mcq_sessions[req.sid].questions)

\* a start that succeeded on a batch of another size than the one asked for
C17_ShortBatchAccepted ==
    /\ req.op = "start_mcq_test" /\ resp.status = 200
    /\ resp.body.total_questions = 5
    /\ Len(mcq_sessions[req.sid].questions) = 2

\* a question as shown in a response discloses its correct label or explanation
HasAnswerKey(question) ==
    "correct_option" \in DOMAIN question \/ "explanation" \in DOMAIN question

\* C18: no response discloses the correct label or the explanation of a
\* question that has not been answered: the first question of a start and the
\* next question of a submission carry neither key; in a session fetch, a
\* question carrying either key comes with the stored answer to it, and the
\* questions of an incomplete session carry neither key; the answers shown by
\* a fetch or a report are answers to the questions at their positions.
C18_NoAnswerKeyBeforeAnswer ==
    /\ resp.body.kind = "start" => ~HasAnswerKey(resp.body.first_question)
    /\ resp.body.kind = "MCQResponse" => ~HasAnswerKey(resp.body.question)
    /\ resp.body.kind = "MCQSession"
          => /\ \A i \in 1..Len(resp.body.questions) :
                    HasAnswerKey(resp.body.questions[i])
                    => /\ resp.body.is_complete
                       /\ i <= Len(resp.body.answers)
             /\ \A i \in 1..Len(resp.body.answers) :
                    /\ i <= Len(mcq_sessions[req.sid].questions)
                    /\ resp.body.answers[i].question_text
                          = mcq_sessions[req.sid].questions[i].question_text
    /\ resp.body.kind = "MCQEvaluationReport"
          => \A i \in 1..Len(resp.body.answers) :
                /\ i <= Len(mcq_sessions[req.sid].questions)
                /\ resp.body.answers[i].question_text
                      = mcq_sessions[req.sid].questions[i].question_text

C18_Witness ==
    /\ req.op = "get_mcq_session" /\ resp.status = 200
    /\ ~resp.body.is_complete
    /\ Len(resp.body.answers) = 1
    /\ Len(resp.body.questions) = 2
    /\ HasAnswerKey(mcq_sessions[req.sid].questions[2])
    /\ ~HasAnswerKey(resp.body.questions[2])

\* C19: an MCQ report request received for a session with fewer answers than
\* questions is answered 400 "not complete" naming the pointer, sends nothing
\* to the completion service, stores no report and is not taken up; a request
\* that is not refused, and every report request being worked on, found the
\* pointer equal to the number of questions.
C19_McqReportNeedsAllAnswers ==
    [][ /\ \A s \in DOMAIN mcq_sessions :
              Received("mcq_report", s)
              => /\ Len(mcq_sessions[s].answers) < Len(mcq_sessions[s].questions)
                    => /\ resp'.status = 400
                       /\ resp'.detail.msg = "MCQ test not complete"
                       /\ resp'.detail.answered
                             = mcq_sessions[s].current_question_number
                       /\ resp'.call = NoCall
                       /\ mcq_reports' = mcq_reports
                       /\ inflight' = inflight
                 /\ resp'.status # 400
                    => mcq_sessions[s].current_question_number
                          = Len(mcq_sessions[s].questions)
        /\ \A request \in BagToSet(inflight') :
              request.op = "mcq_report"
              => request.session.current_question_number
                    = Len(request.session.questions) ]_vars

C19_Witness ==
    /\ req.op = "mcq_report" /\ req.phase # "finish"
    /\ resp.status = 400
    /\ req.sid \in DOMAIN mcq_sessions
    /\ Len(mcq_sessions[req.sid].answers) = 1
    /\ Len(mcq_sessions[req.sid].questions) = 2
    /\ req.sid \notin DOMAIN mcq_reports

\* the submissions of a session whose label is, whatever its case, the correct
\* label of the question at their position
MatchingSubmissions(session) ==
    {i \in 1..Len(session.answers) :
        upper(session.answers[i].selected_option)
            = upper(session.questions[i].correct_option)}

\* C20: the report generated for a 5-question session answered in order has
\* total_questions 5, correct_answers equal to the number of submissions whose
\* label matched the stored correct label case-insensitively, and
\* score_percentage equal to correct_answers x 20.
C20_ScoreOfFiveQuestions ==
    (req.op = "mcq_report" /\ resp.status = 200)
    => LET session == mcq_sessions[req.sid]
           correct == Cardinality(MatchingSubmissions(session))
       IN  /\ Len(session.questions) = 5
           /\ Len(session.answers) = 5
           /\ \A i \in 1..5 : session.answers[i].question_number = i
           /\ resp.body.total_questions = 5
           /\ resp.body.correct_answers = correct
           /\ resp.body.score_percentage.num
                 = correct * 20 * resp.body.score_percentage.den
           /\ resp.body = get_mcq_report(mcq_reports, req.sid)

C20_Witness ==
    /\ req.op = "mcq_report" /\ resp.status = 200
    /\ resp.call.fn = "generate_evaluation_report"
    /\ resp.body.correct_answers = 3
    /\ resp.body.score_percentage = [num |-> 300, den |-> 5]
    /\ mcq_sessions[req.sid].questions[1].correct_option = "A"
    /\ mcq_sessions[req.sid].answers[1].is_correct

\* the last step generated an MCQ report from the answer list in req
ReportGenerated ==
    req.op = "generate_evaluation_report" /\ resp.status = 200

\* C21: a report generated from an empty answer list has total_questions 0 and
\* score_percentage 0 (no division is made); from a non-empty list the score is
\* correct / total x 100.
C21_ScoreOfEmptyAnswerList ==
    ReportGenerated
    => LET total == Len(req.args.answers)
           score == resp.body.score_percentage
       IN  /\ resp.body.total_questions = total
           /\ score.den # 0
           /\ total = 0 => score.num = 0
           /\ total > 0 => score.num * total = resp.body.correct_answers * 100 * score.den

C21_Witness ==
    /\ ReportGenerated
    /\ req.args.answers = << >>
    /\ resp.body.total_questions = 0
    /\ resp.body.score_percentage.num = 0

RECURSIVE SumField(_, _, _)
SumField(scores, categories, field) ==
    IF categories = {} THEN 0
    ELSE LET c == CHOOSE c \in categories : TRUE
         IN  scores[c][field] + SumField(scores, categories \ {c}, field)

\* C22: in every generated MCQ report the per-category correct counts add up
\* to correct_answers and the per-category totals add up to total_questions.
C22_CategorySumsMatchTotals ==
    ReportGenerated
    => LET scores == resp.body.category_scores
       IN  /\ SumField(scores, DOMAIN scores, "correct") = resp.body.correct_answers
           /\ SumField(scores, DOMAIN scores, "total") = resp.body.total_questions

C22_Witness ==
    /\ ReportGenerated
    /\ Len(req.args.answers) = 2
    /\ resp.body.correct_answers = 1
    /\ resp.body.category_scores # << >>

\* the positions of the questions of a session tagged with category c
Tagged(session, c) ==
    {i \in 1..Len(session.questions) : session.questions[i].category = c}

\* C23: in a generated MCQ report every category c of the session's questions
\* has a bucket whose total is the number of questions tagged c and whose
\* correct count is the number of those answered correctly.
C23_BucketsByQuestionCategory ==
    (req.op = "mcq_report" /\ resp.status = 200)
    => LET session == mcq_sessions[req.sid]
           scores == resp.body.category_scores
       IN  \A c \in {session.questions[i].category : i \in 1..Len(session.questions)} :
              /\ c \in DOMAIN scores
              /\ scores[c].total = Cardinality(Tagged(session, c))
              /\ scores[c].correct
                    = Cardinality({i \in Tagged(session, c) :
                                      /\ i <= Len(session.answers)
                                      /\ session.answers[i].is_correct})

\* the step is the second step of `request`, which leaves the requests in flight
Finishes(request) ==
    /\ inflight' = inflight (-) SetToBag({request})
    /\ req'.op = request.op /\ req'.sid = request.sid /\ req'.phase = "finish"

\* C24: a chat request that is answered writes the transcript and the counter
\* of the session as it read them, extended by its own message pair and by
\* one, whatever the store holds by then; so of two requests that read the same
\* session before either wrote, both are answered, the counter advances by one
\* and the pair of the first to write is gone.
C24_StaleChatWriteOverwrites ==
    [][ \A request \in BagToSet(inflight) :
          (request.op = "chat" /\ Finishes(request) /\ resp'.status = 200)
          => /\ sessions'[request.sid].question_count
                   = request.session.question_count + 1
             /\ sessions'[request.sid].messages
                   = request.session.messages
                       \o << ChatMessage("Candidate", request.user_message),
                             ChatMessage("AI", resp'.body.ai_reply) >>
             /\ resp'.body.question_number = request.session.question_count + 1 ]_vars

\* two chat turns of a fresh session have been answered, the stored counter is
\* 1 and the stored transcript holds one message pair
C24_Witness ==
    \E s \in DOMAIN sessions :
        /\ accepted[s] = 2
        /\ sessions[s].question_count = 1
        /\ Len(sessions[s].messages) = 2
        /\ req.op = "chat" /\ req.sid = s /\ resp.status = 200
        /\ inflight = EmptyBag

\* C25: an accepted answer submission writes the answers and the pointer of
\* the session as it read them, extended by its own answer and by one,
\* whatever the store holds by then; so of two submissions for the same
\* ordinal that read the session before either wrote, both are accepted, the
\* stored answers grow by one record and the answer of the first to write is
\* gone.
C25_StaleAnswerWriteOverwrites ==
    [][ \A request \in BagToSet(inflight) :
          (request.op = "mcq_answer" /\ Finishes(request) /\ resp'.status = 200)
          => /\ Len(mcq_sessions'[request.sid].answers)
                   = Len(request.session.answers) + 1
             /\ SubSeq(mcq_sessions'[request.sid].answers, 1,
                       Len(request.session.answers)) = request.session.answers
             /\ mcq_sessions'[request.sid].current_question_number
                   = request.session.current_question_number + 1 ]_vars

\* two submissions for ordinal 1 of a 2-question session have been accepted
\* and the session stores one answer
C25_Witness ==
    \E s \in DOMAIN mcq_sessions :
        /\ accepted[s] = 2
        /\ Len(mcq_sessions[s].questions) = 2
        /\ Len(mcq_sessions[s].answers) = 1
        /\ mcq_sessions[s].current_question_number = 1
        /\ req.op = "mcq_answer" /\ req.sid = s /\ resp.status = 200
        /\ req.args.question_number = 1
        /\ inflight = EmptyBag

\* C26: a stored report, interview or MCQ, is never removed and its content
\* never changes.
C26_ReportWriteOnce ==
    [][ /\ \A s \in DOMAIN reports :
              s \in DOMAIN reports' /\ reports'[s] = reports[s]
        /\ \A s \in DOMAIN mcq_reports :
              s \in DOMAIN mcq_reports' /\ mcq_reports'[s] = mcq_reports[s] ]_vars

\* the letter a label stands for, whatever its case
Letter(label) ==
    CASE label \in {"A", "a"} -> 1
      [] label \in {"B", "b"} -> 2
      [] label \in {"C", "c"} -> 3
      [] label \in {"D", "d"} -> 4
      [] label \in {"E", "e"} -> 5

\* C27: the answer record built from a stored question and a submitted label
\* is marked correct exactly when the label is the question's correct label
\* up to letter case; it carries the question's ordinal, text and explanation,
\* and the text of the option with the submitted label (no text when the
\* question has no such option).
C27_AnswerRecord ==
    (req.op = "evaluate_answer" /\ req.phase = "all")
    => LET q == req.args.question_data
           l == req.args.selected_option
           a == resp.body.answer
       IN  /\ a.is_correct <=> Letter(l) = Letter(q.correct_option)
           /\ a.question_number = q.question_number
           /\ a.question_text = q.question_text
           /\ a.explanation = q.explanation
           /\ \A i \in 1..Len(q.options) :
                 Letter(q.options[i].option) = Letter(l)
                 => a.selected_text = q.options[i].text
           /\ (\A i \in 1..Len(q.options) : Letter(q.options[i].option) # Letter(l))
                 => a.selected_text = ""

C27_Witness ==
    /\ req.op = "evaluate_answer" /\ req.phase = "all"
    /\ req.args.selected_option = "a"
    /\ req.args.question_data.correct_option = "A"
    /\ resp.body.answer.is_correct
    /\ resp.body.answer.selected_text = "tA"

\* C28: an accepted answer submission
\* leaves the stored answers extended by exactly one record and the pointer
\* advanced by one; the flag it returns is the flag it stored; it returns the
\* completion sentinel with is_complete true exactly when the new pointer is
\* the number of questions, and otherwise the stored question that follows the
\* new pointer, without its answer key, with is_complete false.
C28_AcceptedSubmission ==
    [][ \A s \in DOMAIN mcq_sessions :
          (req'.op = "mcq_answer" /\ req'.sid = s /\ resp'.status = 200)
          => LET old == mcq_sessions[s]
                 new == mcq_sessions'[s]
                 pointer == new.current_question_number
                 shown == resp'.body.question
             IN  /\ Len(new.answers) = Len(old.answers) + 1
                 /\ SubSeq(new.answers, 1, Len(old.answers)) = old.answers
                 /\ pointer = old.current_question_number + 1
                 /\ resp'.body.is_complete = new.is_complete
                 /\ resp'.body.is_complete <=> pointer = Len(new.questions)
                 /\ IF pointer = Len(new.questions)
                    THEN /\ shown.question_number = 0
                         /\ shown.options = << >>
                         /\ shown.category = "Completion"
                    ELSE /\ pointer < Len(new.questions)
                         /\ ~HasAnswerKey(shown)
                         /\ \A f \in {"question_number", "question_text",
                                       "options", "category"} :
                               shown[f] = new.questions[pointer + 1][f] ]_vars

C30_FailedChatWritesNothing ==
    [][ /\ (req'.op = "chat" /\ req'.phase = "begin") => sessions' = sessions
        /\ (req'.op = "chat" /\ req'.phase = "finish" /\ req'.args.ai_reply = LLMFail)
              => /\ resp'.status = 500
                 /\ resp'.call.fn = "get_next_question"
                 /\ sessions' = sessions ]_vars

C30_Witness ==
    /\ req.op = "chat" /\ req.phase = "finish"
    /\ req.args.ai_reply = LLMFail
    /\ resp.status = 500
    /\ sessions[req.sid].question_count = 1
    /\ Len(sessions[req.sid].messages) = 2
    /\ ~sessions[req.sid].is_complete

\* the container an operation looks its session id up in
LookupStore(op) ==
    CASE op \in {"chat", "final_report", "get_session"} -> sessions
      [] op \in {"mcq_answer", "mcq_report", "get_mcq_session"} -> mcq_sessions
      [] op = "get_report" -> reports

LookupOps == {"chat", "final_report", "get_session", "mcq_answer", "mcq_report",
              "get_mcq_session", "get_report"}

\* C31: a chat turn, interview report request, session fetch, MCQ answer, MCQ
\* report request or MCQ session fetch received for a session id that is not in
\* its container, and a report fetch for an id without a stored report, is
\* answered 404, sends nothing to the completion service, and leaves the four
\* containers and the requests in flight as they were.
C31_UnknownIdNotFound ==
    [][ (/\ req'.op \in LookupOps
         /\ req'.phase # "finish"
         /\ req'.sid \notin DOMAIN LookupStore(req'.op))
        => /\ resp'.status = 404
           /\ resp'.call = NoCall
           /\ UNCHANGED <<sessions, reports, mcq_sessions, mcq_reports, inflight>> ]_vars

C31_Witness ==
    /\ req.op = "chat" /\ req.phase # "finish"
    /\ req.sid \notin DOMAIN sessions
    /\ req.sid \in DOMAIN mcq_sessions
    /\ mcq_sessions[req.sid].current_question_number > 0
    /\ resp.status = 404
    /\ resp.detail.msg = "Session not found"

\* the four conditions on an upload that the start requests are said to reject
BadResumeName(upload) == ~endswith(upload.resume_filename, ResumeSuffixes)

BadJDName(upload) ==
    /\ upload.job_description_file.filename # << >>
    /\ ~endswith(upload.job_description_file.filename, JDSuffixes)

NoJD(upload) ==
    /\ upload.job_description_file.filename = << >>
    /\ upload.job_description_text = << >>

\* the job description that was supplied (the file's when there is one, and it
\* could be read) has fewer than 10 characters once trimmed
ShortJD(upload) ==
    LET f == upload.job_description_file
    IN  IF f.filename # << >>
        THEN /\ endswith(f.filename, JDSuffixes)
             /\ f.decodes
             /\ Len(strip(f.text)) < 10
        ELSE /\ upload.job_description_text # << >>
             /\ Len(strip(upload.job_description_text)) < 10

InvalidUpload(upload) ==
    BadResumeName(upload) \/ BadJDName(upload) \/ NoJD(upload) \/ ShortJD(upload)

\* C32 (as stated): an upload_resume request with a bad resume file name, a bad
\* job-description file name, no job description, or a job description under
\* 10 characters after trimming is answered with a 4xx status and the stored
\* sessions are unchanged; a step of upload_resume that adds a session has
\* none of the four.
C32_InvalidUploadIsClientError ==
    [][ req'.op = "upload_resume"
        => /\ InvalidUpload(req'.args)
              => (resp'.status \in 400..499 /\ sessions' = sessions)
           /\ sessions' # sessions => ~InvalidUpload(req'.args) ]_vars

\* C32 (amended): such a request never adds a session; it is answered 400 when
\* the resume file name is bad, and 400 for the three job-description
\* conditions once the resume has been parsed; when the resume has a good name
\* and cannot be parsed the answer is 500 whatever the job description is.  A
\* step of upload_resume that adds a session has none of the four.
C32_InvalidUploadRejected ==
    [][ req'.op = "upload_resume"
        => LET upload == req'.args
           IN  /\ InvalidUpload(upload) => sessions' = sessions
               /\ BadResumeName(upload) => resp'.status = 400
               /\ (InvalidUpload(upload) /\ ~BadResumeName(upload)
                      /\ upload.resume_parses)
                     => resp'.status = 400
               /\ (~BadResumeName(upload) /\ ~upload.resume_parses)
                     => (resp'.status = 500 /\ sessions' = sessions)
               /\ sessions' # sessions => ~InvalidUpload(upload) ]_vars

C32_Witness ==
    /\ req.op = "upload_resume"
    /\ ~BadResumeName(req.args) /\ req.args.resume_parses
    /\ ~BadJDName(req.args) /\ ~NoJD(req.args)
    /\ ShortJD(req.args)
    /\ Len(req.args.job_description_text) >= 10
    /\ resp.status = 400
    /\ resp.detail.msg = "Job description is too short or empty"
    /\ sessions = << >>

\* C33: a start_mcq_test request with a bad resume file name, a bad
\* job-description file name, no job description, or a job description under
\* 10 characters after trimming is answered with an error, asks the completion
\* service for no questions and leaves the stored MCQ sessions unchanged.
C33_McqStartRejectsInvalidUpload ==
    [][ (req'.op = "start_mcq_test" /\ InvalidUpload(req'.args))
        => /\ resp'.status # 200
           /\ resp'.call = NoCall
           /\ mcq_sessions' = mcq_sessions ]_vars

\* a test was started on a job description of three characters
C33_ShortJDAccepted ==
    /\ req.op = "start_mcq_test"
    /\ ShortJD(req.args)
    /\ resp.status = 200
    /\ resp.call = [fn |-> "generate_mcq_questions", count |-> MCQ_COUNT]
    /\ req.sid \in DOMAIN mcq_sessions

\* the transcript holds question_count pairs, a candidate message then an AI
\* message
TranscriptAlternates(session) ==
    /\ Len(session.messages) = 2 * session.question_count
    /\ \A i \in 1..Len(session.messages) :
          session.messages[i].sender = IF i % 2 = 1 THEN "Candidate" ELSE "AI"

\* C34: after every step each stored interview transcript has 2 x
\* question_count messages alternating Candidate, AI (so a non-empty one ends
\* with an AI message); and a chat turn that is answered called the
\* collaborator with the transcript it read plus the new candidate message and
\* with index question_count + 1 of the session it read, and stored that
\* transcript followed by the generated question.
C34_TranscriptShape ==
    [][ /\ \A s \in DOMAIN sessions' :
              /\ TranscriptAlternates(sessions'[s])
              /\ sessions'[s].messages # << >>
                    => sessions'[s].messages[Len(sessions'[s].messages)].sender = "AI"
        /\ \A request \in BagToSet(inflight) :
              (request.op = "chat" /\ Finishes(request) /\ resp'.status = 200)
              => LET read == request.session
                     heard == Append(read.messages,
                                     ChatMessage("Candidate", request.user_message))
                 IN  /\ resp'.call.fn = "get_next_question"
                     /\ resp'.call.conversation_history = heard
                     /\ resp'.call.current_question_number = read.question_count + 1
                     /\ sessions'[request.sid].messages
                           = Append(heard, ChatMessage("AI", req'.args.ai_reply)) ]_vars

C34_Witness ==
    /\ req.op = "chat" /\ req.phase = "finish" /\ resp.status = 200
    /\ sessions[req.sid].question_count = 2
    /\ Len(sessions[req.sid].messages) = 4
    /\ resp.call.current_question_number = 2
    /\ Len(resp.call.conversation_history) = 3

\* C35: in every reachable state, with requests interleaved, the question_count
\* of each interview session is between 0 and 6 and the
\* current_question_number of each MCQ session is between 0 and the number of
\* its stored questions.
C35_CountersInRange ==
    /\ \A s \in DOMAIN sessions :
          sessions[s].question_count \in 0..6
    /\ \A s \in DOMAIN mcq_sessions :
          mcq_sessions[s].current_question_number
              \in 0..Len(mcq_sessions[s].questions)

\* the sixth turn has been stored while another request that read the session
\* before it is still in flight
C35_Witness ==
    /\ req.op = "chat" /\ req.phase = "finish" /\ resp.status = 200
    /\ sessions[req.sid].question_count = 6
    /\ \E request \in BagToSet(inflight) :
          request.op = "chat" /\ request.session.question_count = 5

\* C36: an answer submission is refused with "Invalid question number" only
\* when the session's stored question list is empty.  For a session with at
\* least one question, a submission received while the session is incomplete
\* and carrying the ordinal pointer + 1 is not refused, and every refusal is
\* either the already-completed or the out-of-sequence one.
C36_InvalidNumberOnlyWhenEmpty ==
    [][ \A s \in DOMAIN mcq_sessions :
          Received("mcq_answer", s)
          => LET session == mcq_sessions[s]
             IN  /\ resp'.detail.msg = "Invalid question number"
                       => session.questions = << >>
                 /\ (/\ session.questions # << >>
                     /\ ~session.is_complete
                     /\ req'.args.question_number = session.current_question_number + 1)
                       => resp'.status \notin 400..599
                 /\ (session.questions # << >> /\ resp'.status \in 400..599)
                       => resp'.detail.msg \in {"MCQ test already completed",
                                                "Expected answer for question"} ]_vars

\* the rejection has been given, on a session stored without questions
C36_Witness ==
    /\ req.op = "mcq_answer" /\ req.sid \in DOMAIN mcq_sessions
    /\ mcq_sessions[req.sid].questions = << >>
    /\ req.args.question_number = 1
    /\ resp.status = 400
    /\ resp.detail.msg = "Invalid question number"

\* C37: the transcript of every stored interview report is the stored
\* transcript of its session, in every state from the one that stored the
\* report on.  (No reachable state stores a report: see C9.)
C37_ReportTranscriptMatchesSession ==
    \A s \in DOMAIN reports :
        /\ s \in DOMAIN sessions
        /\ reports[s].transcript = sessions[s].messages

\* the label equals, case ignored, none of the option labels of the question
MatchesNoOption(question, selected_option) ==
    \A i \in 1..Len(question.options) :
        upper(question.options[i].option) # upper(selected_option)

\* C38: an answer submission received for an incomplete session with the
\* ordinal pointer + 1 of one of its questions, whose label matches none of
\* that question's option labels, is answered 200, appends an answer record
\* with is_correct = FALSE and selected_text = "", and advances the pointer
\* by one.
C38_UnmatchedLabelRecordedWrong ==
    [][ \A s \in DOMAIN mcq_sessions :
          LET session == mcq_sessions[s]
              n == req'.args.question_number
          IN  (/\ req'.op = "mcq_answer" /\ req'.sid = s /\ req'.phase = "all"
               /\ ~session.is_complete
               /\ n = session.current_question_number + 1
               /\ n <= Len(session.questions)
               /\ MatchesNoOption(session.questions[n], req'.args.selected_option))
              => /\ resp'.status = 200
                 /\ Len(mcq_sessions'[s].answers) = Len(session.answers) + 1
                 /\ mcq_sessions'[s].answers[n].selected_text = ""
                 /\ mcq_sessions'[s].answers[n].is_correct = FALSE
                 /\ mcq_sessions'[s].current_question_number = n ]_vars

\* an answer is stored as correct whose label is none of the options shown
C38_UnmatchedLabelMarkedCorrect ==
    /\ req.op = "mcq_answer" /\ resp.status = 200
    /\ \E i \in 1..Len(mcq_sessions[req.sid].answers) :
          LET a == mcq_sessions[req.sid].answers[i]
          IN  /\ a.selected_text = ""
              /\ a.is_correct
              /\ MatchesNoOption(mcq_sessions[req.sid].questions[i], a.selected_option)

====
